---------------------------- MODULE Spec2Model ----------------------------
(***************************************************************************)
(* Black-Scholes pricer, Greeks, implied-volatility solvers and the Monte  *)
(* Carlo path generator and control-variate estimator of the repository,   *)
(* as state machines.                                                      *)
(*                                                                         *)
(* Numbers.  The program computes in IEEE double precision.  The model     *)
(* computes in decimal fixed point: the integer n stands for n / U, with   *)
(* U = 10^7, so one unit is 1e-7 (of a dollar, of a volatility point, of a *)
(* year).  Products and quotients are taken exactly and truncated toward   *)
(* zero to one unit, which plays the part of the rounding of a double.     *)
(* A double that is not a finite number (nan, inf, -inf) is a tagged       *)
(* value, see "Floating-point values" below.                               *)
(***************************************************************************)
EXTENDS Integers, Sequences, FiniteSets, TLC

U == 10^7

Abs(x) == IF x < 0 THEN -x ELSE x
Sgn(x) == IF x < 0 THEN -1 ELSE IF x > 0 THEN 1 ELSE 0
Max(a, b) == IF b > a THEN b ELSE a      \* Python's max(a, b)
Min(a, b) == IF b < a THEN b ELSE a      \* Python's min(a, b)

\* The sum of a sequence of numbers
RECURSIVE SeqSum(_)
SeqSum(q) == IF q = <<>> THEN 0 ELSE Head(q) + SeqSum(Tail(q))

(***************************************************************************)
(* Products and quotients of fixed-point numbers without leaving the       *)
(* 32-bit integers.                                                        *)
(***************************************************************************)
\* a*b/U for 0 <= a, b < U, by the digits of b, two at a time
MulLo(a, b) ==
    LET t1 == (a * (b % 100)) \div 100
        t2 == (t1 + a * ((b \div 100) % 100)) \div 100
        t3 == (t2 + a * ((b \div 10000) % 100)) \div 100
    IN  (t3 + a * (b \div 1000000)) \div 10

\* a*b/U for a, b >= 0
MulN(a, b) ==
    (a \div U) * (b \div U) * U + (a \div U) * (b % U) + (a % U) * (b \div U)
        + MulLo(a % U, b % U)

\* x * y, truncated toward zero
Mul(x, y) ==
    IF x = 0 \/ y = 0 THEN 0 ELSE Sgn(x) * Sgn(y) * MulN(Abs(x), Abs(y))

\* The n leading digits of the fraction r/y, for 0 <= r < y <= 2*10^8
RECURSIVE FracDigits(_, _, _)
FracDigits(r, y, n) ==
    IF n = 0 \/ r = 0 THEN 0
    ELSE ((10 * r) \div y) * 10^(n - 1) + FracDigits((10 * r) % y, y, n - 1)

\* x*U/y for x >= 0 and 0 < y <= 2*10^8, when the quotient is below 200
DivN(x, y) == (x \div y) * U + FracDigits(x % y, y, 7)

\* The largest magnitude a quotient may take: 200.0.  Every quotient of the
\* program that exceeds it is used only through a comparison or a function
\* (cdf, pdf, the range test of the solvers) that is constant beyond it.
BIG == 200 * U

\* x / y for y # 0, truncated toward zero and saturating at +-BIG; a divisor
\* above 20.0 is first cut, with x, by four binary digits
Div(x, y) ==
    IF x = 0 THEN 0
    ELSE IF Abs(x) \div Abs(y) >= 200 THEN Sgn(x) * Sgn(y) * BIG
    ELSE IF Abs(y) > 2 * 10^8
         THEN Sgn(x) * Sgn(y) * DivN(Abs(x) \div 16, Abs(y) \div 16)
    ELSE Sgn(x) * Sgn(y) * DivN(Abs(x), Abs(y))

(***************************************************************************)
(* The elementary functions the program takes from numpy and scipy.        *)
(***************************************************************************)
LN2 == 6931472                       \* ln 2
INV_SQRT_2PI == 3989423              \* 1 / sqrt(2 pi)

\* e^x for -LN2 < x <= 0: the Taylor series, by Horner's rule from term n on
RECURSIVE ExpSeries(_, _)
ExpSeries(x, n) ==
    IF n > 12 THEN U ELSE U + Mul(x, ExpSeries(x, n + 1)) \div n

\* e^x for x <= 0: e^x = e^r / 2^k with x = r - k ln 2; below e^-17 it is 0
ExpNeg(x) ==
    IF x < -17 * U THEN 0
    ELSE LET k == (-x) \div LN2
             r == x + k * LN2
         IN  ExpSeries(r, 1) \div (2 ^ k)

\* np.exp(x), math.exp(x); for x > 0 as 1 / e^-x
Exp(x) == IF x <= 0 THEN ExpNeg(x) ELSE Div(U, ExpNeg(-x))

\* 2 atanh(z) = 2 (z + z^3/3 + z^5/5 + ...), |z| < 0.18, from term n on
RECURSIVE AtanhSeries(_, _, _)
AtanhSeries(zp, zz, n) ==
    IF n > 13 \/ zp = 0 THEN 0
    ELSE zp \div n + AtanhSeries(Mul(zp, zz), zz, n + 2)

\* ln m for m in [0.7, 1.5]
LnNear1(m) ==
    LET zq == Div(m - U, m + U)
    IN  2 * AtanhSeries(zq, Mul(zq, zq), 1)

\* np.log(x) for x > 0: halve or double x into [0.75, 1.5)
RECURSIVE Ln(_)
Ln(x) ==
    IF x >= 3 * (U \div 2) THEN LN2 + Ln(x \div 2)
    ELSE IF x < 3 * (U \div 4) THEN Ln(2 * x) - LN2
    ELSE LnNear1(x)

\* Heron's iteration for sqrt(x) from the estimate g >= sqrt(x)
RECURSIVE SqrtIter(_, _)
SqrtIter(x, g) ==
    LET n == (g + Div(x, g)) \div 2
    IN  IF n >= g THEN g ELSE SqrtIter(x, n)

\* np.sqrt(x) for x >= 0
Sqrt(x) == IF x = 0 THEN 0 ELSE SqrtIter(x, Max(x, U))

\* scipy.stats.norm.pdf(x); exp(-x^2/2) is below one unit from |x| = 6 on
Pdf(x) ==
    IF Abs(x) >= 6 * U THEN 0
    ELSE Mul(INV_SQRT_2PI, Exp(-(Mul(x, x) \div 2)))

\* The upper tail 1 - cdf(x) for x >= 0, by the rational approximation
\* 26.2.17 of Abramowitz and Stegun (absolute error below 7.5e-8)
CdfTail(x) ==
    IF x >= 6 * U THEN 0
    ELSE LET t  == Div(U, U + Mul(2316419, x))
             p5 == Mul(t, 13302744)
             p4 == Mul(t, p5 - 18212560)
             p3 == Mul(t, p4 + 17814779)
             p2 == Mul(t, p3 - 3565638)
             p1 == Mul(t, p2 + 3193815)
         IN  Mul(Pdf(x), p1)

\* scipy.stats.norm.cdf(x): the tail for x < 0 and one minus the tail for
\* x >= 0, as scipy's ndtr takes it from erfc
Cdf(x) == IF x < 0 THEN CdfTail(-x) ELSE U - CdfTail(x)


(***************************************************************************)
(* Floating-point values.  A double is a finite number, nan, inf or -inf.  *)
(* numpy's float64 arithmetic never raises: a division by zero gives inf   *)
(* or nan (with a RuntimeWarning), the logarithm of a negative number nan, *)
(* of zero -inf.  Python's own float division raises ZeroDivisionError.    *)
(***************************************************************************)
F(v) == [k |-> "fin", v |-> v]
NaN  == [k |-> "nan", v |-> 0]
PInf == [k |-> "inf", v |-> 1]
NInf == [k |-> "inf", v |-> -1]
\* What a call returns when an exception leaves it
Raised == [k |-> "raise", v |-> 0]

IsFin(a) == a.k = "fin"
FNeg(a) == [a EXCEPT !.v = -a.v]

FAdd(a, b) ==
    IF a.k = "nan" \/ b.k = "nan" THEN NaN
    ELSE IF a.k = "inf" /\ b.k = "inf" THEN (IF a.v = b.v THEN a ELSE NaN)
    ELSE IF a.k = "inf" THEN a
    ELSE IF b.k = "inf" THEN b
    ELSE F(a.v + b.v)

FSub(a, b) == FAdd(a, FNeg(b))

FMul(a, b) ==
    IF a.k = "nan" \/ b.k = "nan" THEN NaN
    ELSE IF a.k = "inf" \/ b.k = "inf"
         THEN (IF a.v = 0 \/ b.v = 0 THEN NaN
               ELSE IF Sgn(a.v) = Sgn(b.v) THEN PInf ELSE NInf)
    ELSE F(Mul(a.v, b.v))

\* a / b in float64 arithmetic
FDiv(a, b) ==
    IF a.k = "nan" \/ b.k = "nan" THEN NaN
    ELSE IF b.k = "inf" THEN (IF a.k = "inf" THEN NaN ELSE F(0))
    ELSE IF b.v = 0
         THEN (IF a.v = 0 THEN NaN ELSE IF a.v > 0 THEN PInf ELSE NInf)
    ELSE IF a.k = "inf" THEN (IF Sgn(a.v) = Sgn(b.v) THEN PInf ELSE NInf)
    ELSE F(Div(a.v, b.v))

\* a / (b * c) for finite numbers b, c: the quotient by the product is taken
\* as two quotients, so that a small product is not lost to the unit
FDivProd(a, b, c) ==
    IF b = 0 \/ c = 0 THEN FDiv(a, F(0)) ELSE FDiv(FDiv(a, F(b)), F(c))

\* np.log of a finite number
FLog(x) == IF x < 0 THEN NaN ELSE IF x = 0 THEN NInf ELSE F(Ln(x))

FCdf(d) ==
    IF d.k = "nan" THEN NaN
    ELSE IF d.k = "inf" THEN (IF d.v > 0 THEN F(U) ELSE F(0))
    ELSE F(Cdf(d.v))

FPdf(d) ==
    IF d.k = "nan" THEN NaN ELSE IF d.k = "inf" THEN F(0) ELSE F(Pdf(d.v))


(***************************************************************************)
(* black_scholes.py: bs_price and bs_greeks.  A contract is the record     *)
(* [S, K, T, r, sigma]; ot is the option type, "call" or "put".            *)
(***************************************************************************)
OptionTypes == {"call", "put"}

\* np.exp(-r * T)
Discount(c) == Exp(-Mul(c.r, c.T))

\* d1 = (np.log(S / K) + (r + 0.5 * sigma * sigma) * T) / (sigma * np.sqrt(T))
\* with the volatility sg, for K # 0
D1(c, sg) ==
    FDivProd(FAdd(FLog(Div(c.S, c.K)),
                  F(Mul(c.r + Mul(sg, sg) \div 2, c.T))),
             sg, Sqrt(c.T))

\* d2 = d1 - sigma * np.sqrt(T)
D2(c, sg) == FSub(D1(c, sg), F(Mul(sg, Sqrt(c.T))))

\* S * cdf(d1) - K * exp(-r T) * cdf(d2)
CallFormula(c, d1, d2) ==
    FSub(FMul(F(c.S), FCdf(d1)), FMul(F(Mul(c.K, Discount(c))), FCdf(d2)))

\* PutFormula with cdf(-d1) in both terms: a put that is not the parity
\* partner of CallFormula
PutFormulaOneTail(c, d1, d2) ==
    FSub(FMul(F(Mul(c.K, Discount(c))), FCdf(FNeg(d1))),
         FMul(F(c.S), FCdf(FNeg(d1))))

\* K * exp(-r T) * cdf(-d2) - S * cdf(-d1)
PutFormula(c, d1, d2) ==
    FSub(FMul(F(Mul(c.K, Discount(c))), FCdf(FNeg(d2))),
         FMul(F(c.S), FCdf(FNeg(d1))))

\* bs_price whose expired branch returns S - K and K - S without max(., 0.0)
bs_price_signed(c, ot) ==
    IF c.T <= 0
    THEN (IF ot = "call" THEN F(c.S - c.K) ELSE F(c.K - c.S))
    ELSE IF c.K = 0 THEN Raised
    ELSE IF ot = "call" THEN CallFormula(c, D1(c, c.sigma), D2(c, c.sigma))
    ELSE PutFormula(c, D1(c, c.sigma), D2(c, c.sigma))

bs_price(c, ot) ==
    IF c.T <= 0
    THEN (IF ot = "call" THEN F(Max(c.S - c.K, 0)) ELSE F(Max(c.K - c.S, 0)))
    ELSE IF c.K = 0 THEN Raised            \* S / K: ZeroDivisionError
    ELSE IF ot = "call" THEN CallFormula(c, D1(c, c.sigma), D2(c, c.sigma))
    ELSE PutFormula(c, D1(c, c.sigma), D2(c, c.sigma))

\* The volatilities sg for which bs_price divides by sg * np.sqrt(T)
bs_price_divisors(c) == IF c.T <= 0 \/ c.K = 0 THEN {} ELSE {c.sigma}

\* -S * pdf(d1) * sigma / (2 sqrt(T)) -+ r * K * exp(-r T) * cdf(+-d2)
ThetaFormula(c, sg, d1, d2, ot) ==
    LET decay == FDiv(FMul(FMul(F(-c.S), FPdf(d1)), F(sg)), F(2 * Sqrt(c.T)))
        rk    == F(Mul(Mul(c.r, c.K), Discount(c)))
    IN  IF ot = "call" THEN FSub(decay, FMul(rk, FCdf(d2)))
        ELSE FAdd(decay, FMul(rk, FCdf(FNeg(d2))))

\* K * T * exp(-r T) * (cdf(d2) for a call, -cdf(-d2) for a put)
RhoFormula(c, d2, ot) ==
    FMul(F(Mul(Mul(c.K, c.T), Discount(c))),
         IF ot = "call" THEN FCdf(d2) ELSE FNeg(FCdf(FNeg(d2))))

bs_greeks(c, ot) ==
    IF c.T <= 0
    THEN [delta |-> IF ot = "call" THEN (IF c.S > c.K THEN F(U) ELSE F(0))
                    ELSE (IF c.S > c.K THEN F(0) ELSE F(-U)),
          gamma |-> F(0), vega |-> F(0), theta |-> F(0), rho |-> F(0)]
    ELSE IF c.K = 0 THEN Raised
    ELSE LET d1 == D1(c, c.sigma)
             d2 == D2(c, c.sigma)
         IN  [delta |-> IF ot = "call" THEN FCdf(d1) ELSE FSub(FCdf(d1), F(U)),
              gamma |-> FDivProd(FDiv(FPdf(d1), F(c.S)), c.sigma, Sqrt(c.T)),
              vega  |-> FMul(FMul(F(c.S), FPdf(d1)), F(Sqrt(c.T))),
              theta |-> ThetaFormula(c, c.sigma, d1, d2, ot),
              rho   |-> RhoFormula(c, d2, ot)]


(***************************************************************************)
(* BlackScholesCalculator.py: class BlackScholesCalculator.                *)
(***************************************************************************)
SIGMA_FLOOR == 10                    \* 1e-6

\* The volatility _d1_d2 computes with: sigma <= 0 is replaced by 1e-6
FlooredSigma(c) == IF c.sigma <= 0 THEN SIGMA_FLOOR ELSE c.sigma

\* _d1_d2, for K # 0
d1_d2(c) ==
    IF c.T <= 0 THEN <<NaN, NaN>>
    ELSE <<D1(c, FlooredSigma(c)), D2(c, FlooredSigma(c))>>

call_option_price(c) ==
    IF c.T <= 0 THEN F(Max(0, c.S - c.K))
    ELSE IF c.K = 0 THEN Raised
    ELSE CallFormula(c, d1_d2(c)[1], d1_d2(c)[2])

put_option_price(c) ==
    IF c.T <= 0 THEN F(Max(0, c.K - c.S))
    ELSE IF c.K = 0 THEN Raised
    ELSE PutFormula(c, d1_d2(c)[1], d1_d2(c)[2])

delta(c, ot) ==
    IF c.T <= 0
    THEN (IF ot = "call" THEN (IF c.S > c.K THEN F(U) ELSE F(0))
          ELSE (IF c.S < c.K THEN F(-U) ELSE F(0)))
    ELSE IF c.K = 0 THEN Raised
    ELSE IF ot = "call" THEN FCdf(d1_d2(c)[1])
    ELSE FSub(FCdf(d1_d2(c)[1]), F(U))

\* norm.pdf(d1) / (S * sigma * np.sqrt(T)), with the sigma of the caller
gamma(c) ==
    IF c.T <= 0 THEN F(0)
    ELSE IF c.K = 0 THEN Raised
    ELSE FDivProd(FDiv(FPdf(d1_d2(c)[1]), F(c.S)), c.sigma, Sqrt(c.T))

\* (S * np.sqrt(T) * norm.pdf(d1)) / 100
vega(c) ==
    IF c.T <= 0 THEN F(0)
    ELSE IF c.K = 0 THEN Raised
    ELSE FDiv(FMul(F(Mul(c.S, Sqrt(c.T))), FPdf(d1_d2(c)[1])), F(100 * U))

\* The volatilities with which an operation evaluates d1 and d2, and those
\* sg for which it divides by a product sg * np.sqrt(T)
calc_d1_sigmas(c) == IF c.T <= 0 \/ c.K = 0 THEN {} ELSE {FlooredSigma(c)}
gamma_divisors(c) ==
    IF c.T <= 0 \/ c.K = 0 THEN {} ELSE {FlooredSigma(c), c.sigma}


(***************************************************************************)
(* UserInterfaceManager.py: the handler of the "Calculate Price & Greeks"  *)
(* button.  It shows an error, or the price.                               *)
(***************************************************************************)
calc_price_button(c, ot) ==
    IF c.S <= 0 \/ c.K <= 0 \/ c.r < 0 \/ c.sigma <= 0 THEN [shown |-> "error", v |-> 0]
    ELSE IF c.T < 0 THEN [shown |-> "error", v |-> 0]
    ELSE IF c.T = 0
         THEN [shown |-> "price",
               v |-> IF ot = "call" THEN Max(0, c.S - c.K) ELSE Max(0, c.K - c.S)]
    ELSE [shown |-> "price",
          v |-> IF ot = "call" THEN call_option_price(c).v
                ELSE put_option_price(c).v]

(***************************************************************************)
(* The pricer as a state machine: a contract is drawn, and one of the      *)
(* pricing functions is applied to it, for a call and for a put.           *)
(***************************************************************************)
VARIABLES
    contract,   \* [S, K, T, r, sigma], the arguments of the call
    op,         \* the function applied, "none" before
    res,        \* its result for each option type
    d1sig,      \* the volatilities with which d1 and d2 were evaluated
    divsig      \* the volatilities sg of the divisions by sg * np.sqrt(T)

pricerVars == <<contract, op, res, d1sig, divsig>>

\* The state of one call of implied_vol_newton
VARIABLES
    ivArgs,     \* [price, c, ot, initial_sigma, tol, max_iter]; c.sigma is the
                \* volatility the market price was computed from, 0 if none
    ivpc,       \* "entry", "newton", "fallback", "bisect" or "done"
    sigma,      \* the Newton iterate
    newton_n,   \* Newton iterations begun
    low, high, p_low, p_high, mid,
    bisect_n,   \* bisection iterations begun
    ivRet,      \* the value returned
    ivExit,     \* the return statement taken, "none" before
    price_evals,      \* calls of bs_price made so far
    newton_divisors   \* the vegas that diff was divided by

solverVars == <<ivArgs, ivpc, sigma, newton_n, low, high, p_low, p_high, mid,
                bisect_n, ivRet, ivExit, price_evals, newton_divisors>>

\* The state of one call of simulate_terminal_stock
VARIABLES
    mcArgs,     \* [S0, r, sigma, T, n_paths, antithetic, rng]; rng is "given"
                \* or "none"
    mcpc,       \* "start", "draw", "odd", "drawn" or "done"
    rngStream,  \* the numbers the generator in use hands out, in order
    rngSource,  \* who made that generator: "caller", "entropy", "none" if none
    z_all,      \* the standard normal draws, one per path
    drawn,      \* how many numbers the generator has handed out
    ST          \* the terminal prices returned

mcVars == <<mcArgs, mcpc, rngStream, rngSource, z_all, drawn, ST>>

\* The state of one call of mc_control_variate_call
VARIABLES
    cvArgs,     \* [S0, K, r, sigma, T, n_paths, antithetic, rng]
    cvpc,       \* "start", "simulating" or "done"
    cvRet,      \* the estimates returned, with the samples behind them
    cvDivisors  \* the values of var_x that cov_yx was divided by

cvVars == <<cvArgs, cvpc, cvRet, cvDivisors>>

\* The state of one call of implied_volatility_newton_raphson
VARIABLES
    nrArgs,     \* [price, c, ot, initial_sigma, tol, max_iterations]
    nrpc,       \* "loop" or "done"
    nr_sigma,   \* sigma
    nr_n,       \* passes of the loop begun
    nr_tiny_n,  \* passes that took the branch of the tiny vega
    nrRet,      \* the value returned
    nrExit      \* the return statement taken, "none" before

nrVars == <<nrArgs, nrpc, nr_sigma, nr_n, nr_tiny_n, nrRet, nrExit>>

vars == <<pricerVars, solverVars, mcVars, cvVars, nrVars>>

\* What a step of one component leaves alone
exceptPricer == <<solverVars, mcVars, cvVars, nrVars>>
exceptSolver == <<pricerVars, mcVars, cvVars, nrVars>>
exceptMc == <<pricerVars, solverVars, cvVars, nrVars>>
exceptCv == <<pricerVars, solverVars, nrVars>>
exceptNr == <<pricerVars, solverVars, mcVars, cvVars>>

Spots    == {-100 * U, 0, 90 * U, 100 * U, 110 * U}
Strikes  == {-100 * U, 0, 100 * U, 105 * U}
Expiries == {-U, 0, 821918, U}               \* -1, 0, 30/365, 1 year
Rates    == {-100000, 0, 100000}             \* -0.01, 0, 0.01
Vols     == {-2500000, 0, 2500000, U}        \* -0.25, 0, 0.25, 1.0

Contracts == [S : Spots, K : Strikes, T : Expiries, r : Rates, sigma : Vols]

PricerStart ==
    /\ contract \in Contracts
    /\ op = "none"
    /\ res = [ot \in OptionTypes |-> F(0)]
    /\ d1sig = {}
    /\ divsig = {}

\* bs_price(S, K, T, r, sigma, option_type)
PriceOp ==
    /\ op = "none"
    /\ op' = "bs_price"
    /\ res' = [ot \in OptionTypes |-> bs_price(contract, ot)]
    /\ d1sig' = bs_price_divisors(contract)
    /\ divsig' = bs_price_divisors(contract)
    /\ UNCHANGED <<contract, exceptPricer>>

\* bs_greeks(S, K, T, r, sigma, option_type)
GreeksOp ==
    /\ op = "none"
    /\ op' = "bs_greeks"
    /\ res' = [ot \in OptionTypes |-> bs_greeks(contract, ot)]
    /\ d1sig' = bs_price_divisors(contract)
    /\ divsig' = bs_price_divisors(contract)
    /\ UNCHANGED <<contract, exceptPricer>>

\* BlackScholesCalculator.call_option_price and put_option_price
OptionPriceOp ==
    /\ op = "none"
    /\ op' = "option_price"
    /\ res' = [ot \in OptionTypes |->
                 IF ot = "call" THEN call_option_price(contract)
                 ELSE put_option_price(contract)]
    /\ d1sig' = calc_d1_sigmas(contract)
    /\ divsig' = calc_d1_sigmas(contract)
    /\ UNCHANGED <<contract, exceptPricer>>

\* BlackScholesCalculator.delta
DeltaOp ==
    /\ op = "none"
    /\ op' = "delta"
    /\ res' = [ot \in OptionTypes |-> delta(contract, ot)]
    /\ d1sig' = calc_d1_sigmas(contract)
    /\ divsig' = calc_d1_sigmas(contract)
    /\ UNCHANGED <<contract, exceptPricer>>

\* BlackScholesCalculator.gamma
GammaOp ==
    /\ op = "none"
    /\ op' = "gamma"
    /\ res' = [ot \in OptionTypes |-> gamma(contract)]
    /\ d1sig' = calc_d1_sigmas(contract)
    /\ divsig' = gamma_divisors(contract)
    /\ UNCHANGED <<contract, exceptPricer>>

\* BlackScholesCalculator.vega
VegaOp ==
    /\ op = "none"
    /\ op' = "vega"
    /\ res' = [ot \in OptionTypes |-> vega(contract)]
    /\ d1sig' = calc_d1_sigmas(contract)
    /\ divsig' = calc_d1_sigmas(contract)
    /\ UNCHANGED <<contract, exceptPricer>>

\* The "Calculate Price & Greeks" button
PriceButtonOp ==
    /\ op = "none"
    /\ op' = "calc_price_button"
    /\ res' = [ot \in OptionTypes |-> calc_price_button(contract, ot)]
    /\ d1sig' = (IF calc_price_button(contract, "call").shown = "price"
                 THEN calc_d1_sigmas(contract) ELSE {})
    /\ divsig' = (IF calc_price_button(contract, "call").shown = "price"
                  THEN gamma_divisors(contract) ELSE {})
    /\ UNCHANGED <<contract, exceptPricer>>

PricerNext ==
    \/ PriceOp
    \/ GreeksOp
    \/ OptionPriceOp
    \/ DeltaOp
    \/ GammaOp
    \/ VegaOp
    \/ PriceButtonOp

(***************************************************************************)
(* black_scholes.py: implied_vol_newton, one step per loop iteration.      *)
(***************************************************************************)
VEGA_EPS == 1                        \* 1e-12, raised to one unit
LOW == 10                            \* 1e-6
HIGH == 5 * U                        \* 5.0
BISECT_ITERS == 200

\* bs_price(S, K, T, r, sg, option_type) - price
Residual(a, sg) == bs_price([a.c EXCEPT !.sigma = sg], a.ot).v - a.price

\* bs_greeks(S, K, T, r, sg, option_type)["vega"]
VegaAt(a, sg) == bs_greeks([a.c EXCEPT !.sigma = sg], a.ot).vega.v

\* The tolerance test without abs
WithinTolSigned(diff, tol) == diff < tol

\* abs(diff) < tol
WithinTol(diff, tol) == Abs(diff) < tol

\* x * y > 0 and x * y <= 0, by the signs of the factors
ProductPositive(x, y) == Sgn(x) * Sgn(y) > 0

\* if price <= 0: return 0.0; sigma = initial_sigma
Enter ==
    /\ ivpc = "entry"
    /\ IF ivArgs.price <= 0
       THEN /\ ivpc' = "done"
            /\ ivRet' = F(0)
            /\ ivExit' = "nonpositive"
            /\ UNCHANGED sigma
       ELSE /\ ivpc' = "newton"
            /\ sigma' = ivArgs.initial_sigma
            /\ UNCHANGED <<ivRet, ivExit>>
    /\ UNCHANGED <<ivArgs, newton_n, low, high, p_low, p_high, mid, bisect_n>>
    /\ UNCHANGED <<price_evals, newton_divisors>>
    /\ UNCHANGED exceptSolver

\* The loop goes on after a vanishing vega
ContinueNewton == "newton"

\* if v < 1e-12: break
AfterTinyVega == "fallback"

\* The range test without its upper limit
LeftRangeBelow(sg) == sg <= 0

\* if sigma <= 0 or sigma > 5: break
LeftRange(sg) == sg <= 0 \/ sg > 5 * U

\* The sigma after the update sigma - diff / v
NewtonUpdate(a, sg) == sg - Div(Residual(a, sg), VegaAt(a, sg))

\* One pass through the body of "for i in range(max_iter)"
NewtonIter ==
    /\ ivpc = "newton"
    /\ newton_n < ivArgs.max_iter
    /\ newton_n' = newton_n + 1
    /\ price_evals' = price_evals + 1
    /\ IF WithinTol(Residual(ivArgs, sigma), ivArgs.tol)
       THEN /\ ivpc' = "done"
            /\ ivRet' = F(Max(sigma, 0))
            /\ ivExit' = "newton"
            /\ UNCHANGED <<sigma, newton_divisors>>
       ELSE IF VegaAt(ivArgs, sigma) < VEGA_EPS
       THEN /\ ivpc' = AfterTinyVega
            /\ UNCHANGED <<sigma, ivRet, ivExit, newton_divisors>>
       ELSE /\ sigma' = NewtonUpdate(ivArgs, sigma)
            /\ newton_divisors' = newton_divisors \cup {VegaAt(ivArgs, sigma)}
            /\ ivpc' = IF LeftRange(sigma') THEN "fallback" ELSE "newton"
            /\ UNCHANGED <<ivRet, ivExit>>
    /\ UNCHANGED <<ivArgs, low, high, p_low, p_high, mid, bisect_n>>
    /\ UNCHANGED exceptSolver

\* The for loop ends after max_iter passes
NewtonExhausted ==
    /\ ivpc = "newton"
    /\ newton_n >= ivArgs.max_iter
    /\ ivpc' = "fallback"
    /\ UNCHANGED <<ivArgs, sigma, newton_n, low, high, p_low, p_high, mid,
                   bisect_n, ivRet, ivExit, price_evals, newton_divisors>>
    /\ UNCHANGED exceptSolver

\* The Newton iterate returned as it is
Unclipped(sg, lo, hi) == sg

\* max(min(sigma, high), low)
Clip(sg, lo, hi) == Max(Min(sg, hi), lo)

\* low, high = 1e-6, 5.0 and the test of the bracket
BisectInit ==
    /\ ivpc = "fallback"
    /\ low' = LOW
    /\ high' = HIGH
    /\ p_low' = Residual(ivArgs, LOW)
    /\ p_high' = Residual(ivArgs, HIGH)
    /\ IF ProductPositive(p_low', p_high')
       THEN /\ ivpc' = "done"
            /\ ivRet' = F(Clip(sigma, LOW, HIGH))
            /\ ivExit' = "clip"
       ELSE /\ ivpc' = "bisect"
            /\ UNCHANGED <<ivRet, ivExit>>
    /\ price_evals' = price_evals + 2
    /\ UNCHANGED <<ivArgs, sigma, newton_n, mid, bisect_n, newton_divisors>>
    /\ UNCHANGED exceptSolver

\* A point a quarter of the way up the bracket
QuarterPoint(lo, hi) == lo + (hi - lo) \div 4

\* mid = 0.5 * (low + high)
Midpoint(lo, hi) == (lo + hi) \div 2

\* One pass through the body of "for i in range(200)"
BisectIter ==
    /\ ivpc = "bisect"
    /\ bisect_n < BISECT_ITERS
    /\ bisect_n' = bisect_n + 1
    /\ mid' = Midpoint(low, high)
    /\ LET p_mid == Residual(ivArgs, mid')
       IN  IF WithinTol(p_mid, ivArgs.tol)
           THEN /\ ivpc' = "done"
                /\ ivRet' = F(mid')
                /\ ivExit' = "bisect"
                /\ UNCHANGED <<low, high, p_low, p_high>>
           ELSE IF ~ProductPositive(p_low, p_mid)
           THEN /\ high' = mid'
                /\ p_high' = p_mid
                /\ UNCHANGED <<low, p_low, ivpc, ivRet, ivExit>>
           ELSE /\ low' = mid'
                /\ p_low' = p_mid
                /\ UNCHANGED <<high, p_high, ivpc, ivRet, ivExit>>
    /\ price_evals' = price_evals + 1
    /\ UNCHANGED <<ivArgs, sigma, newton_n, newton_divisors>>
    /\ UNCHANGED exceptSolver

\* The for loop ends after 200 passes: return mid
BisectExhausted ==
    /\ ivpc = "bisect"
    /\ bisect_n >= BISECT_ITERS
    /\ ivpc' = "done"
    /\ ivRet' = F(mid)
    /\ ivExit' = "exhausted"
    /\ UNCHANGED <<ivArgs, sigma, newton_n, low, high, p_low, p_high, mid, bisect_n,
                   price_evals, newton_divisors>>
    /\ UNCHANGED exceptSolver

SolverNext ==
    \/ Enter
    \/ NewtonIter
    \/ NewtonExhausted
    \/ BisectInit
    \/ BisectIter
    \/ BisectExhausted

\* The inputs of the solver.  A market price is given, or is the price of
\* the contract at one of the volatilities TrueVols.
MaxIter == 8

SolverContracts ==
    [S : {100 * U, 110 * U}, K : {100 * U}, T : {821918, U}, r : {100000}, sigma : {0}]
TrueVols == {100000, 2500000, U}                   \* 0.01, 0.25, 1.0
MarketPrices == {-U, 0, U \div 2, 5 * U, 150 * U}   \* -1, 0, 0.5, 5, 150
InitialSigmas == {1, 2000000, 5 * U}               \* 1e-7, 0.2, 5.0
TOL == U \div 10^4                                 \* 1e-4
MaxIters == {0, 2, MaxIter}

PricedArgs(c, ot, sg, s0, tol, n) ==
    [price |-> bs_price([c EXCEPT !.sigma = sg], ot).v, c |-> [c EXCEPT !.sigma = sg],
     ot |-> ot, initial_sigma |-> s0, tol |-> tol, max_iter |-> n]

QuotedArgs(c, ot, p, s0, tol, n) ==
    [price |-> p, c |-> c, ot |-> ot, initial_sigma |-> s0, tol |-> tol,
     max_iter |-> n]

SolverInputs ==
    {PricedArgs(c, ot, sg, s0, TOL, n) :
        c \in SolverContracts, ot \in OptionTypes, sg \in TrueVols,
        s0 \in InitialSigmas, n \in MaxIters}
    \cup
    {QuotedArgs(c, ot, p, s0, TOL, n) :
        c \in SolverContracts, ot \in OptionTypes, p \in MarketPrices,
        s0 \in InitialSigmas, n \in MaxIters}
    \cup
    {PricedArgs(c, "call", 2500000, 2000000, 0, 2) : c \in SolverContracts}

SolverStart ==
    /\ ivArgs \in SolverInputs
    /\ ivpc = "entry"
    /\ sigma = 0
    /\ newton_n = 0
    /\ low = 0 /\ high = 0 /\ p_low = 0 /\ p_high = 0 /\ mid = 0
    /\ bisect_n = 0
    /\ ivRet = F(0)
    /\ ivExit = "none"
    /\ price_evals = 0
    /\ newton_divisors = {}

(***************************************************************************)
(* mc_black_scholes.py: simulate_terminal_stock.  A generator is the       *)
(* stream of numbers it will hand out, any numbers of ZVals; the model     *)
(* keeps the first n_paths of them, and rng.standard_normal(k) takes the   *)
(* next k.  A generator made by np.random.default_rng() without a seed     *)
(* has any stream.                                                         *)
(***************************************************************************)
MaxPaths == 5

ZVals == {-12000000, 0, 5000000, 2 * U}        \* -1.2, 0, 0.5, 2.0
PathCounts == 0 .. MaxPaths

\* The values k draws can have
StandardNormal(k) == [1 .. k -> ZVals]

\* rng.standard_normal(k), for the generator of stream s after d draws
NextDraws(s, d, k) == [i \in 1 .. k |-> s[d + i]]

\* (n_paths + 1) // 2
HalfUp(n) == (n + 1) \div 2

\* half = n_paths // 2
Half(n) == n \div 2

\* -z, element by element
Negated(z) == [i \in 1 .. Len(z) |-> -z[i]]

\* np.concatenate([z, z]): the second half repeats the first
Repeated(z) == z \o z

\* np.concatenate([z, -z])
Antithetic(z) == z \o Negated(z)

\* S0 * np.exp((r - 0.5 * sigma * sigma) * T + sigma * np.sqrt(T) * z)
TerminalStock(a, z) ==
    Mul(a.S0, Exp(Mul(a.r - Mul(U \div 2, Mul(a.sigma, a.sigma)), a.T)
                  + Mul(Mul(a.sigma, Sqrt(a.T)), z)))

McStart ==
    /\ mcArgs \in [S0 : {100 * U}, r : {100000}, sigma : {2500000}, T : {821918},
                   n_paths : PathCounts, antithetic : BOOLEAN,
                   rng : {"given", "none"}]
    /\ mcpc = "start"
    /\ rngStream \in (IF mcArgs.rng = "given" THEN StandardNormal(mcArgs.n_paths)
                      ELSE {<<>>})
    /\ rngSource = (IF mcArgs.rng = "given" THEN "caller" ELSE "none")
    /\ z_all = <<>>
    /\ drawn = 0
    /\ ST = <<>>

\* if rng is None: rng = np.random.default_rng()
DefaultRng ==
    /\ mcpc = "start"
    /\ mcArgs.rng = "none"
    /\ rngStream' \in StandardNormal(mcArgs.n_paths)
    /\ rngSource' = "entropy"
    /\ mcpc' = "draw"
    /\ UNCHANGED <<mcArgs, z_all, drawn, ST>>
    /\ UNCHANGED exceptMc

\* rng is not None: the generator passed in is used
CallerRng ==
    /\ mcpc = "start"
    /\ mcArgs.rng = "given"
    /\ mcpc' = "draw"
    /\ UNCHANGED <<mcArgs, rngStream, rngSource, z_all, drawn, ST>>
    /\ UNCHANGED exceptMc

\* half = n_paths // 2; z = rng.standard_normal(half); z_all = [z, -z]
DrawAntithetic ==
    /\ mcpc = "draw"
    /\ mcArgs.antithetic
    /\ z_all' = Antithetic(NextDraws(rngStream, drawn, Half(mcArgs.n_paths)))
    /\ drawn' = drawn + Half(mcArgs.n_paths)
    /\ mcpc' = IF mcArgs.n_paths % 2 = 1 THEN "odd" ELSE "drawn"
    /\ UNCHANGED <<mcArgs, rngStream, rngSource, ST>>
    /\ UNCHANGED exceptMc

\* if n_paths % 2 == 1: one more draw is appended
DrawOdd ==
    /\ mcpc = "odd"
    /\ z_all' = z_all \o NextDraws(rngStream, drawn, 1)
    /\ drawn' = drawn + 1
    /\ mcpc' = "drawn"
    /\ UNCHANGED <<mcArgs, rngStream, rngSource, ST>>
    /\ UNCHANGED exceptMc

\* else: z_all = rng.standard_normal(n_paths)
DrawPlain ==
    /\ mcpc = "draw"
    /\ ~mcArgs.antithetic
    /\ z_all' = NextDraws(rngStream, drawn, mcArgs.n_paths)
    /\ drawn' = drawn + mcArgs.n_paths
    /\ mcpc' = "drawn"
    /\ UNCHANGED <<mcArgs, rngStream, rngSource, ST>>
    /\ UNCHANGED exceptMc

\* ST = S0 * np.exp(...); return ST
Transform ==
    /\ mcpc = "drawn"
    /\ ST' = [i \in 1 .. Len(z_all) |-> TerminalStock(mcArgs, z_all[i])]
    /\ mcpc' = "done"
    /\ UNCHANGED <<mcArgs, rngStream, rngSource, z_all, drawn>>
    /\ UNCHANGED exceptMc

McNext ==
    \/ DefaultRng
    \/ CallerRng
    \/ DrawAntithetic
    \/ DrawOdd
    \/ DrawPlain
    \/ Transform

(***************************************************************************)
(* mc_black_scholes.py: mc_control_variate_call.  It makes a generator if  *)
(* it is given none, calls simulate_terminal_stock with it, and corrects   *)
(* the discounted payoffs Y by the discounted terminal prices X.           *)
(***************************************************************************)
MaxCvPaths == 4

\* Y = np.exp(-r * T) * np.maximum(ST - K, 0.0)
DiscountedPayoffs(a, st) ==
    [i \in 1 .. Len(st) |-> Mul(Exp(-Mul(a.r, a.T)), Max(st[i] - a.K, 0))]

\* X = np.exp(-r * T) * ST
ControlSamples(a, st) == [i \in 1 .. Len(st) |-> Mul(Exp(-Mul(a.r, a.T)), st[i])]

\* The mean of a sample, nan for an empty one.  The sum is taken of the
\* differences to the first element, which keeps it small.
SampleMean(q) ==
    IF Len(q) = 0 THEN NaN
    ELSE F(q[1] + SeqSum([i \in 1 .. Len(q) |-> q[i] - q[1]]) \div Len(q))

\* The sample covariance with ddof = 1: nan for fewer than two elements
SampleCov(p, q) ==
    IF Len(p) <= 1 THEN NaN
    ELSE F(SeqSum([i \in 1 .. Len(p) |->
                     Mul(p[i] - SampleMean(p).v, q[i] - SampleMean(q).v)])
           \div (Len(p) - 1))

\* mean() and var(ddof=1) of an array of doubles: nan if an element is
FloatMean(fq) ==
    IF \E i \in 1 .. Len(fq) : ~IsFin(fq[i]) THEN NaN
    ELSE SampleMean([i \in 1 .. Len(fq) |-> fq[i].v])

FloatVar(fq) ==
    IF \E i \in 1 .. Len(fq) : ~IsFin(fq[i]) THEN NaN
    ELSE SampleCov([i \in 1 .. Len(fq) |-> fq[i].v], [i \in 1 .. Len(fq) |-> fq[i].v])

\* var_x > 0, false for nan
Positive(x) == (IsFin(x) /\ x.v > 0) \/ x = PInf

\* b_opt = cov_yx / var_x, whatever var_x is
AlwaysDivided(cov_yx, var_x) == FDiv(cov_yx, var_x)

\* b_opt = cov_yx / var_x if var_x > 0 else 0.0
ControlCoefficient(cov_yx, var_x) ==
    IF Positive(var_x) THEN FDiv(cov_yx, var_x) ELSE F(0)

\* Y_cv = Y - b_opt * (X - S0)
Adjusted(Y, X, b, S0) ==
    [i \in 1 .. Len(Y) |-> FSub(F(Y[i]), FMul(b, F(X[i] - S0)))]

\* Lines 64 to 76, from the terminal prices st
control_variate_estimate(a, st) ==
    LET Y     == DiscountedPayoffs(a, st)
        X     == ControlSamples(a, st)
        var_x == SampleCov(X, X)
        b_opt == ControlCoefficient(SampleCov(Y, X), var_x)
        Y_cv  == Adjusted(Y, X, b_opt, a.S0)
    IN  [cv_mean |-> FloatMean(Y_cv), cv_var |-> FloatVar(Y_cv),
         naive_mean |-> SampleMean(Y), naive_var |-> SampleCov(Y, Y),
         b_opt |-> b_opt, var_x |-> var_x, Y |-> Y, Y_cv |-> Y_cv]

CvStart ==
    /\ cvArgs \in [S0 : {100 * U}, K : {100 * U}, r : {100000}, sigma : {0, 1000000},
                   T : {821918}, n_paths : 0 .. MaxCvPaths, antithetic : BOOLEAN,
                   rng : {"given", "none"}]
    /\ cvpc = "start"
    /\ cvRet = <<>>
    /\ cvDivisors = {}
    /\ mcArgs = [S0 |-> 0, r |-> 0, sigma |-> 0, T |-> 0, n_paths |-> 0,
                 antithetic |-> FALSE, rng |-> "none"]
    /\ mcpc = "done"
    /\ rngStream \in (IF cvArgs.rng = "given" THEN StandardNormal(cvArgs.n_paths)
                      ELSE {<<>>})
    /\ rngSource = (IF cvArgs.rng = "given" THEN "caller" ELSE "none")
    /\ z_all = <<>>
    /\ drawn = 0
    /\ ST = <<>>

\* if rng is None: rng = np.random.default_rng(); then the call of
\* simulate_terminal_stock(S0, r, sigma, T, n_paths, antithetic, rng)
CvEnter ==
    /\ cvpc = "start"
    /\ cvpc' = "simulating"
    /\ IF cvArgs.rng = "none"
       THEN /\ rngStream' \in StandardNormal(cvArgs.n_paths)
            /\ rngSource' = "entropy"
       ELSE UNCHANGED <<rngStream, rngSource>>
    /\ mcArgs' = [S0 |-> cvArgs.S0, r |-> cvArgs.r, sigma |-> cvArgs.sigma,
                  T |-> cvArgs.T, n_paths |-> cvArgs.n_paths,
                  antithetic |-> cvArgs.antithetic, rng |-> "given"]
    /\ mcpc' = "start"
    /\ UNCHANGED <<z_all, drawn, ST>>
    /\ UNCHANGED <<cvArgs, cvRet, cvDivisors>>
    /\ UNCHANGED exceptCv

\* Y, X, the covariance matrix, b_opt, Y_cv and the return statement
CvEstimate ==
    /\ cvpc = "simulating"
    /\ mcpc = "done"
    /\ cvRet' = control_variate_estimate(cvArgs, ST)
    /\ cvDivisors' = (IF Positive(cvRet'.var_x) THEN {cvRet'.var_x} ELSE {})
    /\ cvpc' = "done"
    /\ UNCHANGED cvArgs
    /\ UNCHANGED mcVars
    /\ UNCHANGED exceptCv

CvNext ==
    \/ CvEnter
    \/ CallerRng
    \/ DrawAntithetic
    \/ DrawOdd
    \/ DrawPlain
    \/ Transform
    \/ CvEstimate

(***************************************************************************)
(* BlackScholesCalculator.py: implied_volatility_newton_raphson.  One pass *)
(* of its loop is one step.                                                *)
(***************************************************************************)
NR_VEGA_EPS == 1                     \* 1e-10, raised to one unit
NR_STEP == 100000                    \* 0.01
NR_FLOOR == 10000                    \* 0.001
NR_CAP == 5 * U                      \* 5.0

\* bs_calc.call_option_price or put_option_price at sg, less market_price
NrDifference(a, sg) ==
    (IF a.ot = "call" THEN call_option_price([a.c EXCEPT !.sigma = sg])
     ELSE put_option_price([a.c EXCEPT !.sigma = sg])).v - a.price

\* v = bs_calc.vega(S, K, T, r, sigma) * 100
NrVega(a, sg) == vega([a.c EXCEPT !.sigma = sg]).v * 100

\* The loop without its limit
NoBudget(n, max) == TRUE

\* for i in range(max_iterations)
NrBudgetLeft(n, max) == n < max

\* sigma += 0.01 if price_difference > 0 else -0.01; if sigma <= 0: sigma = 0.001
SmallStep(sg, diff) ==
    IF sg + (IF diff > 0 THEN NR_STEP ELSE -NR_STEP) <= 0 THEN NR_FLOOR
    ELSE sg + (IF diff > 0 THEN NR_STEP ELSE -NR_STEP)

\* if sigma_new <= 0: sigma_new = 0.001; elif sigma_new > 5.0: sigma_new = 5.0
Bounded(sg) == IF sg <= 0 THEN NR_FLOOR ELSE IF sg > NR_CAP THEN NR_CAP ELSE sg

NrIter ==
    /\ nrpc = "loop"
    /\ NrBudgetLeft(nr_n, nrArgs.max_iterations)
    /\ nr_n' = nr_n + 1
    /\ IF Abs(NrDifference(nrArgs, nr_sigma)) < nrArgs.tol
       THEN /\ nrpc' = "done"
            /\ nrRet' = F(nr_sigma)
            /\ nrExit' = "tolerance"
            /\ UNCHANGED <<nr_sigma, nr_tiny_n>>
       ELSE IF Abs(NrVega(nrArgs, nr_sigma)) < NR_VEGA_EPS
       THEN /\ nr_sigma' = SmallStep(nr_sigma, NrDifference(nrArgs, nr_sigma))
            /\ nr_tiny_n' = nr_tiny_n + 1
            /\ UNCHANGED <<nrpc, nrRet, nrExit>>
       ELSE /\ nr_sigma' = Bounded(nr_sigma - Div(NrDifference(nrArgs, nr_sigma),
                                                  NrVega(nrArgs, nr_sigma)))
            /\ UNCHANGED <<nr_tiny_n, nrpc, nrRet, nrExit>>
    /\ UNCHANGED nrArgs
    /\ UNCHANGED exceptNr

\* The for loop ends after max_iterations passes: return sigma
NrExhausted ==
    /\ nrpc = "loop"
    /\ ~NrBudgetLeft(nr_n, nrArgs.max_iterations)
    /\ nrpc' = "done"
    /\ nrRet' = F(nr_sigma)
    /\ nrExit' = "max_iterations"
    /\ UNCHANGED <<nrArgs, nr_sigma, nr_n, nr_tiny_n>>
    /\ UNCHANGED exceptNr

NrNext ==
    \/ NrIter
    \/ NrExhausted

\* The inputs: contracts before and at expiry, market prices quoted or
\* computed from the volatility 0.25
MaxNrIter == 6

NrContracts ==
    [S : {100 * U, 110 * U}, K : {100 * U}, T : {0, 821918}, r : {100000}, sigma : {0}]
NrPrices == {U \div 2, 105000000, 150 * U}        \* 0.5, 10.5, 150
NrInitialSigmas == {100000, 5000000, 5 * U}        \* 0.01, 0.5, 5.0
NrMaxIterations == {0, 3, MaxNrIter}

\* The price the call has at the volatility 0.25
NrPricedAt(c) == call_option_price([c EXCEPT !.sigma = 2500000]).v

NrInputs ==
    UNION {{[price |-> p, c |-> c, ot |-> ot, initial_sigma |-> s0, tol |-> TOL,
             max_iterations |-> n] :
               ot \in OptionTypes, s0 \in NrInitialSigmas, n \in NrMaxIterations,
               p \in NrPrices \cup {NrPricedAt(c)}} : c \in NrContracts}

NrStart ==
    /\ nrArgs \in NrInputs
    /\ nrpc = "loop"
    /\ nr_sigma = nrArgs.initial_sigma
    /\ nr_n = 0
    /\ nr_tiny_n = 0
    /\ nrRet = F(0)
    /\ nrExit = "none"

\* The component that is not running
PricerIdle ==
    /\ contract = [S |-> 0, K |-> 0, T |-> 0, r |-> 0, sigma |-> 0]
    /\ op = "none"
    /\ res = [ot \in OptionTypes |-> F(0)]
    /\ d1sig = {}
    /\ divsig = {}

SolverIdle ==
    /\ ivArgs = QuotedArgs([S |-> 0, K |-> 0, T |-> 0, r |-> 0, sigma |-> 0],
                           "call", 0, 0, 0, 0)
    /\ ivpc = "done"
    /\ sigma = 0
    /\ newton_n = 0
    /\ low = 0 /\ high = 0 /\ p_low = 0 /\ p_high = 0 /\ mid = 0
    /\ bisect_n = 0
    /\ ivRet = F(0)
    /\ ivExit = "none"
    /\ price_evals = 0
    /\ newton_divisors = {}

McIdle ==
    /\ mcArgs = [S0 |-> 0, r |-> 0, sigma |-> 0, T |-> 0, n_paths |-> 0,
                 antithetic |-> FALSE, rng |-> "none"]
    /\ mcpc = "done"
    /\ rngStream = <<>>
    /\ rngSource = "none"
    /\ z_all = <<>>
    /\ drawn = 0
    /\ ST = <<>>

CvIdle ==
    /\ cvArgs = [S0 |-> 0, K |-> 0, r |-> 0, sigma |-> 0, T |-> 0, n_paths |-> 0,
                 antithetic |-> FALSE, rng |-> "none"]
    /\ cvpc = "done"
    /\ cvRet = <<>>
    /\ cvDivisors = {}

NrIdle ==
    /\ nrArgs = [price |-> 0, c |-> [S |-> 0, K |-> 0, T |-> 0, r |-> 0, sigma |-> 0],
                 ot |-> "call", initial_sigma |-> 0, tol |-> 0, max_iterations |-> 0]
    /\ nrpc = "done"
    /\ nr_sigma = 0
    /\ nr_n = 0
    /\ nr_tiny_n = 0
    /\ nrRet = F(0)
    /\ nrExit = "none"

PricerInit == PricerStart /\ SolverIdle /\ McIdle /\ CvIdle /\ NrIdle
PricerSpec == PricerInit /\ [][PricerNext]_vars

SolverInit == SolverStart /\ PricerIdle /\ McIdle /\ CvIdle /\ NrIdle
SolverSpec == SolverInit /\ [][SolverNext]_vars

\* A call that has begun runs on until it returns: as long as it has not
\* returned it takes its next step.  Every step of the solver changes the
\* program counter or a loop counter, and the fairness condition is stated
\* on these alone.
solverProgress == <<ivpc, newton_n, bisect_n>>

SolverStep ==
    /\ ivpc # "done"
    /\ ivpc' \in {"newton", "fallback", "bisect", "done"}
    /\ newton_n' \in {newton_n, newton_n + 1}
    /\ bisect_n' \in {bisect_n, bisect_n + 1}

SolverFairSpec == SolverSpec /\ WF_solverProgress(SolverStep)

McInit == McStart /\ PricerIdle /\ SolverIdle /\ CvIdle /\ NrIdle
McSpec == McInit /\ [][McNext]_vars

CvInit == CvStart /\ PricerIdle /\ SolverIdle /\ NrIdle
CvSpec == CvInit /\ [][CvNext]_vars

NrInit == NrStart /\ PricerIdle /\ SolverIdle /\ McIdle /\ CvIdle
NrSpec == NrInit /\ [][NrNext]_vars

\* Either solver, called once and running on until it returns.  Every pass
\* of the loop of implied_volatility_newton_raphson changes nr_n, and its
\* return changes nrpc.
nrProgress == <<nrpc, nr_n>>

NrStep ==
    /\ nrpc # "done"
    /\ nrpc' \in {"loop", "done"}
    /\ nr_n' \in {nr_n, nr_n + 1}

IvInit == SolverInit \/ NrInit

IvNext ==
    \/ Enter
    \/ NewtonIter
    \/ NewtonExhausted
    \/ BisectInit
    \/ BisectIter
    \/ BisectExhausted
    \/ NrIter
    \/ NrExhausted

IvFairSpec ==
    IvInit /\ [][IvNext]_vars /\ WF_solverProgress(SolverStep) /\ WF_nrProgress(NrStep)

(***************************************************************************)
(* Properties of the pricing functions, checked under PricerSpec.          *)
(***************************************************************************)
\* The spec's example contract: S = K = 100, T = 30/365, r = 0.01, sigma = 0.25
ExampleContract ==
    [S |-> 100 * U, K |-> 100 * U, T |-> 821918, r |-> 100000, sigma |-> 2500000]

\* A contract the specification calls valid, and one valid with T > 0 and
\* a positive volatility
ValidContract(c) == c.S > 0 /\ c.K > 0 /\ c.T >= 0 /\ c.r >= 0
ValidPriced(c) == ValidContract(c) /\ c.T > 0 /\ c.sigma > 0

Pricing == op \in {"bs_price", "option_price"}

\* The numbers an operation returned, the five Greeks for bs_greeks
Outputs ==
    IF op = "bs_greeks"
    THEN UNION {{res[ot].delta, res[ot].gamma, res[ot].vega, res[ot].theta,
                 res[ot].rho} : ot \in OptionTypes}
    ELSE {res[ot] : ot \in OptionTypes}

PARITY_TOL == U \div 10^6            \* 1e-6

C4_ExpiredIntrinsic ==
    (Pricing /\ contract.T <= 0) =>
        /\ res["call"] = F(Max(contract.S - contract.K, 0))
        /\ res["put"] = F(Max(contract.K - contract.S, 0))
        /\ d1sig = {}
        /\ divsig = {}

C4_Witness ==
    /\ op = "bs_price"
    /\ contract.T <= 0
    /\ contract.sigma <= 0
    /\ contract.S < contract.K
    /\ res["call"] = F(0)
    /\ res["put"] = F(contract.K - contract.S)

\* C6: at T <= 0 the delta is a step: 1 if S > K else 0 for a call, -1 if
\* S < K else 0 for a put, hence 0 for both at S = K, and bs_greeks and
\* BlackScholesCalculator.delta both return these values.
C6_ExpiredDeltaStep ==
    (op \in {"bs_greeks", "delta"} /\ contract.T <= 0) =>
        LET d(ot) == IF op = "bs_greeks" THEN res[ot].delta ELSE res[ot]
        IN  /\ d("call") = F(IF contract.S > contract.K THEN U ELSE 0)
            /\ d("put") = F(IF contract.S < contract.K THEN -U ELSE 0)

\* C7: for T > 0 and sigma <= 0 the pricing functions and the Greeks floor
\* sigma before dividing: no division by sigma * sqrt(T) has sigma <= 0,
\* and every number returned is finite.
C7_VolatilityFloored ==
    (/\ op \in {"bs_price", "bs_greeks", "option_price", "delta", "gamma", "vega"}
     /\ ValidContract(contract) /\ contract.T > 0 /\ contract.sigma <= 0) =>
        /\ \A sg \in divsig : sg > 0
        /\ \A x \in Outputs : IsFin(x)

\* C8: for a contract with S <= 0, K <= 0, T < 0 or r < 0 no operation
\* returns a number: the call fails, or the handler shows an error.
C8_InvalidContractRejected ==
    (op # "none" /\ ~ValidContract(contract)) =>
        \A ot \in OptionTypes :
            IF op = "calc_price_button" THEN res[ot].shown = "error"
            ELSE res[ot] = Raised


(***************************************************************************)
(* Properties of implied_vol_newton, checked under SolverSpec.             *)
(***************************************************************************)
\* max(0, S - K) for a call and max(0, K - S) for a put; S and K are the
\* largest prices a call and a put can have
IntrinsicValue(a) ==
    IF a.ot = "call" THEN Max(0, a.c.S - a.c.K) ELSE Max(0, a.c.K - a.c.S)
MaxValue(a) == IF a.ot = "call" THEN a.c.S ELSE a.c.K
OutOfRange(a) == a.price < IntrinsicValue(a) \/ a.price > MaxValue(a)

\* The call has returned a number.  implied_vol_newton returns a float and
\* nothing else, and its callers take the float for the implied volatility.
ReturnedAsSolution == ivpc = "done" /\ IsFin(ivRet)

\* C1: a market price below the intrinsic value or above the maximum is
\* rejected before the iterative phase: no Newton iteration and no bisection
\* iteration is begun, and no return statement of the iterative phase hands
\* back a volatility.
C1_OutOfRangeRejected ==
    OutOfRange(ivArgs) =>
        /\ newton_n = 0
        /\ bisect_n = 0
        /\ ~(ReturnedAsSolution /\ ivExit \in {"newton", "clip", "bisect", "exhausted"})

\* C2: when no evaluated sigma satisfied |price(sigma) - marketPrice| < tol,
\* Newton having stopped and the bracket failing or the 200 bisections being
\* used up, the result does not pass for a converged one.
C2_NonConvergenceReported ==
    (ivpc = "done" /\ ivExit \in {"clip", "exhausted"}) => ~ReturnedAsSolution

\* The market price is the price of the contract at the volatility c.sigma,
\* and the tolerance is positive
RoundTrip(a) == a.c.sigma > LOW /\ a.c.sigma < HIGH /\ a.c.T > 0 /\ a.tol > 0

VOL_TOL == U \div 10^4               \* 1e-4

Recovered ==
    /\ ReturnedAsSolution
    /\ ivExit \in {"newton", "bisect"}
    /\ Abs(ivRet.v - ivArgs.c.sigma) <= VOL_TOL

\* C5 as stated: for every price computed with T > 0 and sigma in
\* (1e-6, 5.0) the solver returns, after a satisfied tolerance test, a
\* volatility within 1e-4 of sigma.
C5_RoundTripEveryPrice ==
    (ivpc = "done" /\ RoundTrip(ivArgs)) => Recovered

\* The price answers to the volatility at sigma: vega(sigma) >= 1
VegaSensitive(a) == VegaAt(a, a.c.sigma) >= U

\* C5: for a price computed with T > 0 and sigma in (1e-6, 5.0) at which
\* vega is at least 1, the solver returns, after a satisfied tolerance test
\* of the Newton or of the bisection phase, a volatility within 1e-4 of
\* sigma, from every initial guess in (0, 5.0].
C5_RoundTripSensitive ==
    (ivpc = "done" /\ RoundTrip(ivArgs) /\ VegaSensitive(ivArgs)) => Recovered

C5_Witness ==
    /\ ivpc = "done"
    /\ ivArgs.c = ExampleContract
    /\ ivArgs.ot = "call"
    /\ ivArgs.initial_sigma = 2000000
    /\ ivArgs.tol = TOL
    /\ ivExit = "newton"
    /\ newton_n > 1
    /\ Recovered

\* C9: whichever return statement is taken, from an initial guess in
\* (0, 5.0] the value returned is a number in [0, 5.0], never a NaN.
C9_ReturnInRange ==
    (ivpc = "done" /\ ivArgs.initial_sigma > 0 /\ ivArgs.initial_sigma <= HIGH) =>
        /\ IsFin(ivRet)
        /\ ivRet.v >= 0
        /\ ivRet.v <= HIGH

C9_Witness ==
    /\ ivpc = "done"
    /\ ivExit = "clip"
    /\ sigma > HIGH
    /\ ivRet = F(HIGH)


(***************************************************************************)
(* Properties of simulate_terminal_stock, checked under McSpec.            *)
(***************************************************************************)
\* C10: with antithetic sampling and an even path count n the n draws are
\* sign pairs, draw i + n/2 being the negation of draw i, so that each pair,
\* the sum of the draws and their mean are exactly 0, whatever numbers the
\* generator hands out.
C10_AntitheticPairs ==
    (mcpc \in {"drawn", "done"} /\ mcArgs.antithetic /\ mcArgs.n_paths % 2 = 0) =>
        LET half == mcArgs.n_paths \div 2
        IN  /\ Len(z_all) = mcArgs.n_paths
            /\ drawn = half
            /\ \A i \in 1 .. half : z_all[i + half] = -z_all[i]
            /\ \A i \in 1 .. half : z_all[i] + z_all[i + half] = 0
            /\ SeqSum(z_all) = 0
            /\ mcArgs.n_paths > 0 => SeqSum(z_all) \div mcArgs.n_paths = 0

C10_Witness ==
    /\ mcpc = "done"
    /\ mcArgs.antithetic
    /\ mcArgs.n_paths = 4
    /\ z_all[1] > 0
    /\ z_all[2] < 0
    /\ z_all[1] # -z_all[2]
    /\ Len(ST) = 4


(***************************************************************************)
(* Properties of the phases of implied_vol_newton, checked under           *)
(* SolverSpec.                                                             *)
(***************************************************************************)
\* A step that is one pass of the Newton loop that did not meet the tolerance
NewtonPassWithoutReturn ==
    /\ ivpc = "newton"
    /\ newton_n' = newton_n + 1
    /\ ~WithinTol(Residual(ivArgs, sigma), ivArgs.tol)

\* C13: the update sigma - diff / vega is computed only when vega >= 1e-12;
\* as soon as a pass observes a vega below the threshold, the tolerance not
\* met, the Newton loop ends without the division and the solver goes to
\* the bisection phase.
C13_VegaGuard ==
    /\ [](\A v \in newton_divisors : v >= VEGA_EPS)
    /\ [][NewtonPassWithoutReturn =>
            IF VegaAt(ivArgs, sigma) < VEGA_EPS
            THEN /\ sigma' = sigma
                 /\ newton_divisors' = newton_divisors
                 /\ ivpc' = "fallback"
            ELSE /\ sigma' = sigma - Div(Residual(ivArgs, sigma), VegaAt(ivArgs, sigma))
                 /\ VegaAt(ivArgs, sigma) \in newton_divisors']_vars

C13_Witness ==
    /\ ivpc = "fallback"
    /\ newton_n >= 1
    /\ newton_n < ivArgs.max_iter
    /\ sigma = ivArgs.initial_sigma
    /\ newton_divisors = {}
    /\ ~WithinTol(Residual(ivArgs, sigma), ivArgs.tol)
    /\ VegaAt(ivArgs, sigma) < VEGA_EPS

\* The bisection phase has begun on the bracket [1e-6, 5.0]
BracketOpened ==
    /\ ivpc \in {"bisect", "done"}
    /\ ivExit # "newton"
    /\ low = LOW
    /\ high = HIGH
    /\ bisect_n = 0

\* A step that opens the bracket and takes the residuals at its ends
OpensBracket ==
    /\ BracketOpened'
    /\ ivArgs' = ivArgs
    /\ p_low' = Residual(ivArgs, LOW)
    /\ p_high' = Residual(ivArgs, HIGH)

\* C14: every exit from the Newton loop other than meeting the tolerance is
\* followed by the bisection phase on [1e-6, 5.0]; once Newton is abandoned
\* no further Newton step occurs; and with an initial guess in (0, 5.0] the
\* price is never evaluated at a Newton iterate outside (0, 5.0].
C14_FallbackFollowsNewton ==
    /\ [](ivArgs.initial_sigma > 0 /\ ivArgs.initial_sigma <= HIGH /\ ivpc = "newton"
             => sigma > 0 /\ sigma <= HIGH)
    /\ [][ivpc = "newton" /\ ivpc' # "newton" /\ ivExit' # "newton"
             => ivpc' = "fallback"]_vars
    /\ [][(ivpc = "fallback" \/ ivpc = "bisect" \/ ivpc = "done")
             => (ivpc' # "newton" /\ sigma' = sigma /\ newton_n' = newton_n
                   /\ newton_divisors' = newton_divisors)]_vars
    /\ [][ivpc = "fallback" => OpensBracket]_vars
    /\ (ivpc = "fallback" ~> BracketOpened)

C14_Witness ==
    /\ ivpc = "bisect"
    /\ bisect_n >= 1
    /\ newton_n >= 2
    /\ LeftRange(sigma)
    /\ newton_n < ivArgs.max_iter

\* The bracket test and the state of the bracket while the loop runs
BracketKept ==
    /\ (ivExit = "clip") =>
          (/\ bisect_n = 0
           /\ ProductPositive(Residual(ivArgs, LOW), Residual(ivArgs, HIGH))
           /\ ivRet = F(Max(Min(sigma, HIGH), LOW)))
    /\ (bisect_n >= 1) =>
          ~ProductPositive(Residual(ivArgs, LOW), Residual(ivArgs, HIGH))
    /\ (ivpc = "bisect") =>
          (/\ LOW <= low /\ low < high /\ high <= HIGH
           /\ ~ProductPositive(p_low, p_high)
           /\ p_low = Residual(ivArgs, low)
           /\ p_high = Residual(ivArgs, high))

\* A step that is one pass of the bisection loop that did not return
BisectPassWithoutReturn ==
    /\ ivpc = "bisect"
    /\ ivpc' = "bisect"
    /\ bisect_n' = bisect_n + 1

\* C15, as stated: the loop iterates only if the residuals at 1e-6 and 5.0
\* do not have the same strict sign, otherwise the clipped Newton sigma is
\* returned without an iteration; after every iteration
\* 1e-6 <= low < high <= 5.0, the residuals at low and high do not have the
\* same strict sign, p_low and p_high are the residuals at low and high, and
\* the width of the bracket is exactly half of the width before.
C15_ExactHalving ==
    /\ []BracketKept
    /\ [][BisectPassWithoutReturn => 2 * (high' - low') = high - low]_vars

\* C15, amended: the same, with the width half of the width before up to
\* the rounding of the midpoint.
C15_HalvingUpToRounding ==
    /\ []BracketKept
    /\ [][BisectPassWithoutReturn =>
            /\ Abs(2 * (high' - low') - (high - low)) <= 1
            /\ \/ low' = low /\ high' = mid'
               \/ low' = mid' /\ high' = high]_vars

C15_Witness ==
    /\ ivpc = "bisect"
    /\ bisect_n >= 3
    /\ low > LOW
    /\ high < HIGH
    /\ 8 * (high - low) # HIGH - LOW

(***************************************************************************)
(* Properties of both solvers, checked under IvFairSpec, and of            *)
(* implied_volatility_newton_raphson, checked under NrSpec.                *)
(***************************************************************************)
\* C16: every solve terminates.  implied_vol_newton makes at most max_iter
\* Newton iterations and then at most 200 bisection iterations, at most
\* max_iter + 202 evaluations of the price; implied_volatility_newton_raphson
\* makes at most max_iterations iterations, also when every one of them
\* takes the branch of the tiny vega.
C16_BoundedTermination ==
    /\ [](/\ newton_n <= ivArgs.max_iter
          /\ bisect_n <= BISECT_ITERS
          /\ price_evals <= ivArgs.max_iter + BISECT_ITERS + 2
          /\ nr_tiny_n <= nr_n
          /\ nr_n <= nrArgs.max_iterations)
    /\ <>[](ivpc = "done" /\ nrpc = "done")

C16_Witness ==
    /\ nrpc = "done"
    /\ nrExit = "max_iterations"
    /\ nr_n = MaxNrIter
    /\ nr_tiny_n = MaxNrIter

\* A step that is one pass of the loop through the branch of the tiny vega
TinyVegaPass ==
    /\ nrpc = "loop"
    /\ nr_tiny_n' = nr_tiny_n + 1

\* C18: with an initial guess in (0, 5.0], sigma is in (0, 5.0] after every
\* iteration, through the Newton update and through the branch of the tiny
\* vega, and so is the value returned; and the small step moves sigma in
\* the direction that reduces |price(sigma) - market_price|: down when the
\* price is above the market price, up when it is below.
C18_SigmaInRangeAndStepDirection ==
    /\ [](/\ nr_sigma > 0 /\ nr_sigma <= NR_CAP
          /\ (nrExit # "none") => (nrRet.v > 0 /\ nrRet.v <= NR_CAP))
    /\ [][TinyVegaPass =>
            /\ (NrDifference(nrArgs, nr_sigma) > 0) => (nr_sigma' < nr_sigma)
            /\ (NrDifference(nrArgs, nr_sigma) < 0) => (nr_sigma' > nr_sigma)]_vars

(***************************************************************************)
(* Properties of the random stream, checked under McSpec.                  *)
(***************************************************************************)
\* The normals a call takes from the front of stream s, in the order of z_all
DrawsFrom(a, s) ==
    IF a.antithetic
    THEN Antithetic(NextDraws(s, 0, Half(a.n_paths)))
             \o NextDraws(s, Half(a.n_paths), a.n_paths % 2)
    ELSE NextDraws(s, 0, a.n_paths)

\* C12: the engine draws only from the stream its caller supplied and its
\* result is a function of the parameters and that stream; no call, a call
\* without a stream argument included, draws from an implicit or unseeded
\* source.
C12_ExplicitStreamOnly ==
    mcpc = "done" =>
        /\ rngSource = "caller"
        /\ ST = [i \in 1 .. mcArgs.n_paths |->
                    TerminalStock(mcArgs, DrawsFrom(mcArgs, rngStream)[i])]

\* C17: simulate_terminal_stock returns exactly n_paths terminal prices for
\* every n_paths >= 0 in both modes; the antithetic mode takes n_paths \div 2
\* draws and exactly one more when n_paths is odd, the plain mode exactly
\* n_paths draws.
C17_PathAndDrawCounts ==
    /\ (mcpc = "odd") =>
          (/\ mcArgs.antithetic /\ mcArgs.n_paths % 2 = 1
           /\ drawn = mcArgs.n_paths \div 2
           /\ Len(z_all) = mcArgs.n_paths - 1)
    /\ (mcpc \in {"drawn", "done"}) =>
          (/\ Len(z_all) = mcArgs.n_paths
           /\ drawn = (IF mcArgs.antithetic
                       THEN (mcArgs.n_paths \div 2) + (mcArgs.n_paths % 2)
                       ELSE mcArgs.n_paths))
    /\ (mcpc = "done") => (Len(ST) = mcArgs.n_paths)

C17_Witness ==
    /\ mcpc = "done"
    /\ mcArgs.antithetic
    /\ mcArgs.n_paths = MaxPaths
    /\ drawn = (MaxPaths \div 2) + (MaxPaths % 2)
    /\ Len(ST) = MaxPaths

(***************************************************************************)
(* Properties of mc_control_variate_call, checked under CvSpec.            *)
(***************************************************************************)
\* C11: when the sample variance of the control X is not strictly positive,
\* zero or undefined, b_opt is 0 and nothing was divided by var_x, the
\* adjusted samples are the naive samples, and the control-variate mean and
\* variance are the naive mean and variance.
C11_DegenerateControl ==
    (cvpc = "done" /\ ~Positive(cvRet.var_x)) =>
        /\ cvRet.b_opt = F(0)
        /\ cvDivisors = {}
        /\ cvRet.Y_cv = [i \in 1 .. Len(cvRet.Y) |-> F(cvRet.Y[i])]
        /\ cvRet.cv_mean = cvRet.naive_mean
        /\ cvRet.cv_var = cvRet.naive_var

C11_Witness ==
    /\ cvpc = "done"
    /\ cvArgs.n_paths = 3
    /\ cvArgs.sigma > 0
    /\ cvRet.var_x = F(0)
    /\ cvRet.naive_mean.v > 0
    /\ cvRet.cv_mean = cvRet.naive_mean


=============================================================================
